---------------------------- MODULE Spec2Model ----------------------------
(***************************************************************************)
(* A model of dlsp.py, a two-phase threaded crawler:                       *)
(*   make_request_with_retry  the retrying fetch (lines 42-57)             *)
(*   process_page             the listing-page scan (lines 149-168)        *)
(*   parse_and_save_game      the detail-page extraction (lines 59-147)    *)
(*   main                     the orchestrator (lines 170-202)             *)
(*                                                                         *)
(* These specifications share the variables:                               *)
(*   SpecFetch  one call of make_request_with_retry, attempt by attempt,   *)
(*              with the log of what it did (sleeps and requests)          *)
(*   SpecItem   one call of parse_and_save_game: its fetch, then the       *)
(*              extraction and the file on the response document           *)
(*   SpecScan   one call of process_page: its fetch, then the filter on    *)
(*              the response document                                      *)
(*   SpecSizes  the search of the size tokens in one page text             *)
(*   SpecWrite  two calls of parse_and_save_game at once, the open and     *)
(*              the write of the file being two steps                      *)
(*   Spec       main with its two thread pools and their tasks             *)
(*   FairSpec   Spec with the fairness of a running thread pool            *)
(*                                                                         *)
(* Texts are sequences of atoms: an atom is a word or one special          *)
(* character (" ", ":", "/", ...), so stripping and character removal are  *)
(* computed as the code computes them, on atoms.                           *)
(***************************************************************************)
EXTENDS Integers, Sequences, FiniteSets, TLC

\* ------------------------------------------------------------ constants

\* TOTAL_PAGES = 122 in the source (line 17), scaled down.
TOTAL_PAGES == 2
\* MAX_RETRIES = 10 in the source (line 20), scaled down.
MAX_RETRIES == 1
\* THREADS = 10 in the source (line 22), scaled down.
THREADS == 2
\* Seconds slept before each request (line 19) and before a retry (line 21).
REQUEST_DELAY == 1
RETRY_DELAY == 5
\* The largest max_retries argument the single-call specification tries
\* (the smallest is -1, where range(max_retries + 1) is empty).
MaxRetriesArg == 3
\* The most detail links the modelled site serves over all its listing pages.
MaxLinks == 2
\* The most fragments a page text of the size search is put together from.
MaxFrags == 3

\* ------------------------------------------------------------ the fetch

\* What one session.get + raise_for_status can do (lines 47-48): succeed, or
\* raise one of the requests exceptions the except clause of line 50 names.
FailureKinds == {"transport", "timeout", "status"}
Outcomes == {"ok"} \cup FailureKinds

\* The state of one call of make_request_with_retry(url, max_retries):
\* the loop variable, and how the call ended.
NewCall(url, max_retries) ==
  [url |-> url, max_retries |-> max_retries, attempt |-> 0,
   status |-> "running", value |-> "none", logged |-> -1]

\* The mutant of LoopExhausted: the loop is over range(max_retries).
LoopExhausted_Early(f) == f.attempt >= f.max_retries

\* range(max_retries + 1) has no element left for the loop variable: the for
\* loop of line 44 ends and line 57 returns None.
LoopExhausted(f) == f.attempt > f.max_retries

ReturnNone(f) == [f EXCEPT !.status = "returned", !.value = "None"]

\* The mutants of Attempt: a failure on an HTTP status is not retried; the
\* last failure is swallowed and the loop left; the last failure starts the
\* loop again.
Attempt_Restart(f, o) ==
  IF o = "ok"
    THEN [f EXCEPT !.status = "returned", !.value = "response"]
    ELSE IF f.attempt < f.max_retries
      THEN [f EXCEPT !.attempt = @ + 1]
      ELSE [f EXCEPT !.attempt = 0]

Attempt_NoRetryOnStatus(f, o) ==
  IF o = "ok"
    THEN [f EXCEPT !.status = "returned", !.value = "response"]
    ELSE IF f.attempt < f.max_retries /\ o # "status"
      THEN [f EXCEPT !.attempt = @ + 1]
      ELSE [f EXCEPT !.status = "raised", !.value = o,
                     !.logged = f.max_retries]

Attempt_ReturnsFailure(f, o) ==
  IF o = "ok"
    THEN [f EXCEPT !.status = "returned", !.value = "response"]
    ELSE IF f.attempt < f.max_retries
      THEN [f EXCEPT !.attempt = @ + 1]
      ELSE [f EXCEPT !.status = "returned", !.value = "None",
                     !.logged = f.max_retries]

\* One iteration of the loop body (lines 45-56) with the request's outcome o:
\* a response is returned; a failure with attempt < max_retries goes to the
\* next iteration; the last failure logs "after {max_retries} attempts" and
\* is re-raised.
Attempt(f, o) ==
  IF o = "ok"
    THEN [f EXCEPT !.status = "returned", !.value = "response"]
    ELSE IF f.attempt < f.max_retries
      THEN [f EXCEPT !.attempt = @ + 1]
      ELSE [f EXCEPT !.status = "raised", !.value = o,
                     !.logged = f.max_retries]

\* The mutant of AttemptEvents: the retry delay is also slept after the last
\* failure.
AttemptEvents_SleepAfterLast(f, o) ==
  << [ev |-> "pace", secs |-> REQUEST_DELAY, attempt |-> f.attempt],
     [ev |-> "request", outcome |-> o, attempt |-> f.attempt] >>
  \o (IF o = "ok" THEN << >>
      ELSE << [ev |-> "retry_wait", secs |-> RETRY_DELAY, attempt |-> f.attempt] >>)

\* What one iteration does, in order: time.sleep(REQUEST_DELAY) (line 46),
\* the request (lines 47-48) and, after a failure with attempts remaining,
\* time.sleep(RETRY_DELAY) (line 53).
AttemptEvents(f, o) ==
  << [ev |-> "pace", secs |-> REQUEST_DELAY, attempt |-> f.attempt],
     [ev |-> "request", outcome |-> o, attempt |-> f.attempt] >>
  \o (IF o # "ok" /\ f.attempt < f.max_retries
        THEN << [ev |-> "retry_wait", secs |-> RETRY_DELAY, attempt |-> f.attempt] >>
        ELSE << >>)

\* ------------------------------------------------------------ texts

WHITESPACE == {" ", "\n", "\t"}

RECURSIVE LStrip(_)
LStrip(t) == IF t # << >> /\ Head(t) \in WHITESPACE THEN LStrip(Tail(t)) ELSE t

RECURSIVE RStrip(_)
RStrip(t) ==
  IF t # << >> /\ t[Len(t)] \in WHITESPACE THEN RStrip(SubSeq(t, 1, Len(t) - 1)) ELSE t

\* str.strip()
Strip(t) == RStrip(LStrip(t))

\* str.replace(c, "") for each character c of chars, re.sub("[chars]", "", ...)
RemoveChars(t, chars) == SelectSeq(t, LAMBDA a : a \notin chars)

\* str.lower(), atom by atom
LowerAtom(a) ==
  CASE a = "PS4" -> "ps4"
    [] a = "Ps4" -> "ps4"
    [] a = "Torrent" -> "torrent"
    [] a = "Base" -> "base"
    [] a = "Game" -> "game"
    [] a = "Update" -> "update"
    [] a = "UPDATE" -> "update"
    [] a = "Fix" -> "fix"
    [] OTHER -> a

Lower(t) == [i \in 1 .. Len(t) |-> LowerAtom(t[i])]

\* s in t, for a one-atom s
Contains(t, a) == \E i \in 1 .. Len(t) : t[i] = a

\* dict.get(key, default); a dict is a function on its keys
DictGet(d, k, default) == IF k \in DOMAIN d THEN d[k] ELSE default

UNKNOWN == << "Unknown" >>

RECURSIVE Flatten(_)
\* "".join(seqs)
Flatten(seqs) == IF seqs = << >> THEN << >> ELSE Head(seqs) \o Flatten(Tail(seqs))

\* The characters sanitize_filename removes (line 40).
INVALID_CHARS == {"\\", "/", "*", "?", ":", "\"", "<", ">", "|"}

sanitize_filename(filename) == Strip(RemoveChars(filename, INVALID_CHARS))

\* ------------------------------------------------------------ listing pages

BASE_URL == << "https://game-2u.com/Category/game/ps4" >>

\* The listing URL of a page index (line 151).
PageUrl(page_number) ==
  IF page_number > 1 THEN BASE_URL \o << "/page/", ToString(page_number) >>
  ELSE BASE_URL

\* An anchor of a document: its href attribute, when it has one, and its text.
Anchor(href, text) == [has_href |-> TRUE, href |-> href, text |-> text]
AnchorNoHref(text) == [has_href |-> FALSE, href |-> << >>, text |-> text]

\* The mutant of KeepLink: the platform token is not asked for.
KeepLink_AnyPlatform(a) ==
  a.has_href /\ a.href # << >> /\ Contains(a.href, "/20")

\* The filter of line 162 on one title link.
KeepLink(a) ==
  a.has_href /\ a.href # << >> /\ Contains(a.href, "/20")
    /\ Contains(Lower(a.href), "ps4")

RECURSIVE GameLinks(_)
\* The loop of lines 158-165 over the anchors soup.select("h2.entry-title a")
\* found, in document order.
GameLinks(links) ==
  IF links = << >> THEN << >>
  ELSE (IF KeepLink(Head(links)) THEN << Head(links).href >> ELSE << >>)
         \o GameLinks(Tail(links))

\* The mutant of process_page: no try/except around the body.
process_page_NoCatch(f, doc) ==
  IF f.status = "raised"
    THEN [raised |-> TRUE, value |-> << >>, how |-> "fetch_failed"]
  ELSE IF f.value = "None"
    THEN [raised |-> FALSE, value |-> << >>, how |-> "no_response"]
  ELSE IF ~ doc.parsable
    THEN [raised |-> TRUE, value |-> << >>, how |-> "parse_failed"]
  ELSE [raised |-> FALSE, value |-> GameLinks(doc.anchors), how |-> "ok"]

\* process_page once its fetch f has ended (lines 150-168), on the response
\* document doc: what it hands to its caller (raised: an exception leaves it).
process_page(f, doc) ==
  IF f.status = "raised"
    THEN [raised |-> FALSE, value |-> << >>, how |-> "fetch_failed"]
  ELSE IF f.value = "None"
    THEN [raised |-> FALSE, value |-> << >>, how |-> "no_response"]
  ELSE IF ~ doc.parsable
    THEN [raised |-> FALSE, value |-> << >>, how |-> "parse_failed"]
  ELSE [raised |-> FALSE, value |-> GameLinks(doc.anchors), how |-> "ok"]

\* ------------------------------------------------------------ detail pages

Cell(text, anchors) == [text |-> text, anchors |-> anchors]

\* soup.find("h1", class_="entry-title") and line 68: h1 holds the texts of
\* the document's entry-title headings, in document order.
game_name(doc) == IF doc.h1 # << >> THEN Strip(Head(doc.h1)) ELSE UNKNOWN

RECURSIVE TableRows(_, _)
\* The loop of lines 74-79 over the rows of one table, from the dict acc.
TableRows(rows, acc) ==
  IF rows = << >> THEN acc
  ELSE LET cells == Head(rows)
           key == RemoveChars(Strip(cells[1].text), {":"})
           value == Strip(cells[2].text)
       IN TableRows(Tail(rows),
                    IF Len(cells) >= 2 THEN (key :> value) @@ acc ELSE acc)

\* table_data (lines 71-79): built from the first table only.
table_data(doc) ==
  IF doc.tables # << >> THEN TableRows(Head(doc.tables), << >>) ELSE << >>

\* A row that makes line 113 raise KeyError: exactly 2 cells, "torrent" in the
\* first cell's lowercase text, and the cell's first anchor has no href.
RowRaises(tds) ==
  /\ ~ (Len(tds) >= 4)
  /\ Len(tds) = 2
  /\ Contains(Lower(tds[1].text), "torrent")
  /\ tds[1].anchors # << >>
  /\ ~ Head(tds[1].anchors).has_href

\* Whether the extraction of lines 65-135 raises on the document.
ExtractRaises(doc) ==
  \/ ~ doc.parsable
  \/ \E t \in 1 .. Len(doc.tables) :
       \E r \in 1 .. Len(doc.tables[t]) : RowRaises(doc.tables[t][r])

\* The characters \d takes.
DIGITS == {"0", "1", "2", "3", "4", "5", "6", "7", "8", "9"}

\* Whether the n characters of t from position p are all in the set chars.
AllIn(t, p, n, chars) ==
  /\ p + n - 1 <= Len(t)
  /\ \A i \in p .. p + n - 1 : t[i] \in chars

\* The mutant of MatchLen: the decimals may be three.
MatchLen_ThreeDecimals(t, p) ==
  LET ways == {w \in (1 .. 3) \X (1 .. 3) \X (0 .. 1) :
                 /\ AllIn(t, p, w[1], DIGITS)
                 /\ AllIn(t, p + w[1], 1, {"."})
                 /\ AllIn(t, p + w[1] + 1, w[2], DIGITS)
                 /\ AllIn(t, p + w[1] + 1 + w[2], w[3], WHITESPACE)
                 /\ AllIn(t, p + w[1] + 1 + w[2] + w[3], 1, {"G"})
                 /\ AllIn(t, p + w[1] + 1 + w[2] + w[3] + 1, 1, {"B"})}
      Before(v, w) ==
        \/ v[1] > w[1]
        \/ v[1] = w[1] /\ v[2] > w[2]
        \/ v[1] = w[1] /\ v[2] = w[2] /\ v[3] >= w[3]
  IN IF ways = {} THEN 0
     ELSE LET w == CHOOSE v \in ways : \A u \in ways : Before(v, u)
          IN w[1] + 1 + w[2] + w[3] + 2

\* The length of the match of r"(\d{1,3}\.\d{1,2}\s?GB)" (line 86) that
\* starts at position p of t, 0 when there is none. A way to match is the
\* number of characters each quantifier takes; the quantifiers are greedy, so
\* of the ways that match the regex engine finds the one that takes the most
\* for the first quantifier, then for the second, then for the third.
MatchLen(t, p) ==
  LET ways == {w \in (1 .. 3) \X (1 .. 2) \X (0 .. 1) :
                 /\ AllIn(t, p, w[1], DIGITS)
                 /\ AllIn(t, p + w[1], 1, {"."})
                 /\ AllIn(t, p + w[1] + 1, w[2], DIGITS)
                 /\ AllIn(t, p + w[1] + 1 + w[2], w[3], WHITESPACE)
                 /\ AllIn(t, p + w[1] + 1 + w[2] + w[3], 1, {"G"})
                 /\ AllIn(t, p + w[1] + 1 + w[2] + w[3] + 1, 1, {"B"})}
      Before(v, w) ==
        \/ v[1] > w[1]
        \/ v[1] = w[1] /\ v[2] > w[2]
        \/ v[1] = w[1] /\ v[2] = w[2] /\ v[3] >= w[3]
  IN IF ways = {} THEN 0
     ELSE LET w == CHOOSE v \in ways : \A u \in ways : Before(v, u)
          IN w[1] + 1 + w[2] + w[3] + 2

RECURSIVE FindAll(_, _)
\* re.findall scans from the left: a match at p is taken and the scan goes on
\* after it, otherwise the scan goes on at p + 1. The matches' places.
FindAll(t, p) ==
  IF p > Len(t) THEN << >>
  ELSE LET n == MatchLen(t, p)
       IN IF n > 0 THEN << [start |-> p, len |-> n] >> \o FindAll(t, p + n)
          ELSE FindAll(t, p + 1)

\* size_matches of line 86, from the places of the matches.
MatchedTexts(t, spans) ==
  [i \in 1 .. Len(spans) |-> SubSeq(t, spans[i].start, spans[i].start + spans[i].len - 1)]

size_matches(content_text) == MatchedTexts(content_text, FindAll(content_text, 1))

\* The lines of lines 124-128.
SizeLines(matches) ==
  IF matches # << >> THEN [i \in 1 .. Len(matches) |-> << "- " >> \o matches[i]]
  ELSE << << "- " >> \o UNKNOWN >>

\* content_text of line 85: the text of the whole page, character by
\* character. The documents carry it as a field of its own; the headings and
\* cells of the modelled pages hold no size.
content_text(doc) == doc.body

\* The keys of section_links, in the order of the dict (lines 88-93).
SECTIONS == << "Base Game", "Update", "Fix", "Torrent" >>

\* section_links as line 93 leaves it.
NoLinks == [sec \in {SECTIONS[i] : i \in 1 .. Len(SECTIONS)} |-> << >>]

\* f"{a['href']} - {a.get_text(strip=True)}" (lines 100 and 113)
FormatLink(a) == a.href \o << " - " >> \o Strip(a.text)

\* The list of lines 99-102: tds[3].find_all("a", href=True), formatted.
RowLinks(tds) ==
  LET with_href == SelectSeq(tds[4].anchors, LAMBDA a : a.has_href)
  IN [i \in 1 .. Len(with_href) |-> FormatLink(with_href[i])]

\* The mutant of RowSection: the fix test comes first.
RowSection_FixFirst(label) ==
  IF Contains(label, "fix") THEN "Fix"
  ELSE IF Contains(label, "base") THEN "Base Game"
  ELSE IF Contains(label, "update") THEN "Update"
  ELSE "none"

\* The if/elif chain of lines 103-108 on the label of line 98: the key of
\* section_links the row's links go to, "none" when no branch is taken.
RowSection(label) ==
  IF Contains(label, "base") THEN "Base Game"
  ELSE IF Contains(label, "update") /\ ~ Contains(label, "fix") THEN "Update"
  ELSE IF Contains(label, "fix") THEN "Fix"
  ELSE "none"

\* The body of the loop of lines 96-113 on one row, from the dict acc. (A
\* torrent anchor without href raises at line 113: see RowRaises.)
ClassifyRow(tds, acc) ==
  IF Len(tds) >= 4
    THEN LET label == Lower(Strip(tds[1].text))
             sec == RowSection(label)
         IN IF sec = "none" THEN acc
            ELSE [acc EXCEPT ![sec] = @ \o RowLinks(tds)]
  ELSE IF Len(tds) = 2 /\ Contains(Lower(tds[1].text), "torrent")
    THEN IF tds[1].anchors # << >> /\ Head(tds[1].anchors).has_href
           THEN [acc EXCEPT !["Torrent"] = Append(@, FormatLink(Head(tds[1].anchors)))]
           ELSE acc
  ELSE acc

RECURSIVE RowsLinks(_, _)
\* The loop of line 96 over the rows of one table.
RowsLinks(rows, acc) ==
  IF rows = << >> THEN acc
  ELSE RowsLinks(Tail(rows), ClassifyRow(Head(rows), acc))

RECURSIVE TablesLinks(_, _)
\* The loop of line 95 over every table of the page.
TablesLinks(tables, acc) ==
  IF tables = << >> THEN acc
  ELSE TablesLinks(Tail(tables), RowsLinks(Head(tables), acc))

\* section_links after the loops of lines 95-113.
section_links(doc) == TablesLinks(doc.tables, NoLinks)

\* What lines 67-113 extract from the page, the data of the record.
ItemRecord(url, doc) ==
  [url |-> url,
   name |-> game_name(doc),
   version |-> DictGet(table_data(doc), << "Game Version" >>, UNKNOWN),
   language |-> DictGet(table_data(doc), << "Language" >>, UNKNOWN),
   firmware |-> DictGet(table_data(doc), << "Required firmware" >>, UNKNOWN),
   sizes |-> size_matches(content_text(doc)),
   links |-> section_links(doc)]

\* The mutant of SectionBlock: the heading of a section is written whether or
\* not the section has links.
SectionBlock_EmitEmpty(section, links) ==
  << << "\n[", section, "]" >> >> \o [i \in 1 .. Len(links) |-> << "- " >> \o links[i]]

\* The body of the loop of lines 131-135 for one section: its lines.
SectionBlock(section, links) ==
  IF links # << >>
    THEN << << "\n[", section, "]" >> >> \o [i \in 1 .. Len(links) |-> << "- " >> \o links[i]]
    ELSE << >>

\* The loop of lines 131-135 over section_links.items(), in the dict's order.
DownloadLines(links) ==
  Flatten([i \in 1 .. Len(SECTIONS) |-> SectionBlock(SECTIONS[i], links[SECTIONS[i]])])

\* The list lines of lines 115-135, which line 141 joins and writes.
Lines(rec) ==
  << << "URL: " >> \o rec.url,
     << "Game Name: " >> \o rec.name,
     << "Game Version: " >> \o rec.version,
     << "Language: " >> \o rec.language,
     << "Required firmware: " >> \o rec.firmware,
     << "\nDetected Sizes:" >> >>
  \o SizeLines(rec.sizes)
  \o << << "\nDownload Links:" >> >>
  \o DownloadLines(rec.links)

\* The file name of lines 138-139.
FileName(doc) == sanitize_filename(game_name(doc)) \o << ".txt" >>

NoWrite ==
  [written |-> FALSE, name |-> << >>,
   record |-> ItemRecord(<< >>, [h1 |-> << >>, tables |-> << >>, body |-> << >>,
                                 parsable |-> TRUE])]

\* parse_and_save_game once its fetch f has ended (lines 60-147), on the
\* response document doc; write_ok: open and write of lines 140-141 succeed.
\* What it hands to its caller, and the file it wrote.
parse_and_save_game(url, f, doc, write_ok) ==
  IF f.status = "raised"
    THEN [raised |-> FALSE, value |-> FALSE, how |-> "fetch_failed"] @@ NoWrite
  ELSE IF f.value = "None"
    THEN [raised |-> FALSE, value |-> FALSE, how |-> "no_response"] @@ NoWrite
  ELSE IF ExtractRaises(doc)
    THEN [raised |-> FALSE, value |-> FALSE, how |-> "parse_failed"] @@ NoWrite
  ELSE IF ~ write_ok
    THEN [raised |-> FALSE, value |-> FALSE, how |-> "write_failed"] @@ NoWrite
  ELSE [raised |-> FALSE, value |-> TRUE, how |-> "ok",
        written |-> TRUE, name |-> FileName(doc), record |-> ItemRecord(url, doc)]


\* ------------------------------------------------------------ the site

\* Detail URLs the listing pages link to, and links the filter drops.
U1 == << "https://game-2u.com", "/20", "24/", "ps4", "-a" >>
U2 == << "https://game-2u.com", "/20", "25/", "PS4", "-b" >>
U_PS5 == << "https://game-2u.com", "/20", "24/", "ps5", "-c" >>
U_MIXED == << "https://game-2u.com", "/20", "23/", "Ps4", "-d" >>
U_NOYEAR == << "https://game-2u.com", "/archive/", "ps4", "-e" >>
URLS == {U1, U2}

ListingDoc(anchors) == [parsable |-> TRUE, anchors |-> anchors]

\* The documents a listing page may answer with: no title link, one or two
\* links, the same link twice, links the filter drops, and a document the
\* parser raises on.
ListingDocs ==
  { ListingDoc(<< >>),
    ListingDoc(<< Anchor(U1, << "a" >>) >>),
    ListingDoc(<< Anchor(U2, << "b" >>), Anchor(U1, << "a" >>) >>),
    ListingDoc(<< Anchor(U1, << "a" >>), Anchor(U1, << "a" >>) >>),
    ListingDoc(<< AnchorNoHref(<< "x" >>), Anchor(U_PS5, << "c" >>),
                  Anchor(U2, << "b" >>) >>),
    [parsable |-> FALSE, anchors |-> << >>] }

NoListingDoc == ListingDoc(<< >>)

\* The documents the single scan is run on: those, and documents with a link
\* whose href is empty, has no year marker, or spells the platform in mixed
\* case, among links the filter keeps and repeats.
ScanDocs ==
  ListingDocs \cup
  { ListingDoc(<< Anchor(<< >>, << "x" >>), Anchor(U_NOYEAR, << "e" >>) >>),
    ListingDoc(<< Anchor(U_MIXED, << "d" >>), Anchor(U_NOYEAR, << "e" >>),
                  Anchor(U2, << "b" >>) >>),
    ListingDoc(<< AnchorNoHref(<< "x" >>), Anchor(U_MIXED, << "d" >>),
                  Anchor(U_PS5, << "c" >>), Anchor(U1, << "a" >>),
                  Anchor(U_NOYEAR, << "e" >>), Anchor(U_MIXED, << "d" >>) >>) }

DetailDoc(h1, tables) ==
  [parsable |-> TRUE, h1 |-> h1, tables |-> tables, body |-> << >>]

\* A page whose text holds sizes.
DetailDocText(h1, tables, body) ==
  [parsable |-> TRUE, h1 |-> h1, tables |-> tables, body |-> body]

SizesText ==
  << "This game is ", "1", "2", ".", "3", "4", " ", "G", "B",
     ", patch adds ", "0", ".", "5", "6", " ", "G", "B" >>

InfoTable ==
  << << Cell(<< "Game Version", ":" >>, << >>), Cell(<< " ", "1.05" >>, << >>) >>,
     << Cell(<< "Language", ":" >>, << >>), Cell(<< "English" >>, << >>) >>,
     << Cell(<< "Required firmware", ":" >>, << >>), Cell(<< "9.00" >>, << >>) >> >>

\* An attribute table with a row of one cell, a key that has a colon before
\* its text too, and a key on two rows.
ColonTable ==
  << << Cell(<< "Platform", ":" >>, << >>) >>,
     << Cell(<< ":", "Language", ":" >>, << >>), Cell(<< "Japanese" >>, << >>) >>,
     << Cell(<< "Game Version", ":" >>, << >>), Cell(<< "1.00" >>, << >>) >>,
     << Cell(<< " ", "Game Version", ":", " " >>, << >>), Cell(<< "2.00", " " >>, << >>) >> >>

\* Hosts' links of the download tables.
L1 == << "https://host/f1" >>
L2 == << "https://host/f2" >>
L3 == << "https://host/f3" >>
L4 == << "https://host/f4" >>
L5 == << "https://host/f5" >>
L6 == << "https://host/f6" >>
NoCell == Cell(<< >>, << >>)

\* A download table: a base-game row with two links and an anchor without
\* href between them, an update row, a fix row, a row no label test takes, and
\* rows labelled as base game that have three cells and two.
LinkTableA ==
  << << Cell(<< " ", "Base", " ", "Game", "\n" >>, << >>), NoCell, NoCell,
        Cell(<< >>, << Anchor(L1, << " ", "Mirror", " ", "1" >>),
                       AnchorNoHref(<< "dead" >>),
                       Anchor(L2, << "Mirror", " ", "2" >>) >>) >>,
     << Cell(<< "Update", " ", "1.05" >>, << >>), NoCell, NoCell,
        Cell(<< >>, << Anchor(L3, << "Mirror", " ", "1" >>) >>) >>,
     << Cell(<< "Fix" >>, << >>), NoCell, NoCell,
        Cell(<< >>, << Anchor(L4, << "Mirror", " ", "1" >>) >>), NoCell >>,
     << Cell(<< "DLC" >>, << >>), NoCell, NoCell,
        Cell(<< >>, << Anchor(L5, << "Mirror", " ", "1" >>) >>) >>,
     << Cell(<< "Base", " ", "Game" >>, << >>), NoCell,
        Cell(<< >>, << Anchor(L6, << "Mirror", " ", "3" >>) >>) >>,
     << Cell(<< "Base", " ", "Game" >>, << Anchor(L6, << "Mirror", " ", "3" >>) >>),
        NoCell >> >>

\* A download table whose labels pass more than one test: an update row of a
\* fix, a base-game row with a fix, a base-game row with an update, and a
\* second update row.
LinkTableB ==
  << << Cell(<< "UPDATE", " ", "1.07" >>, << >>), NoCell, NoCell,
        Cell(<< >>, << Anchor(L5, << "Mirror", " ", "1" >>) >>) >>,
     << Cell(<< "Update", " ", "Fix" >>, << >>), NoCell, NoCell,
        Cell(<< >>, << Anchor(L4, << "Mirror", " ", "2" >>) >>) >>,
     << Cell(<< "Base", " ", "+", " ", "Fix" >>, << >>), NoCell, NoCell,
        Cell(<< >>, << Anchor(L6, << "Mirror", " ", "1" >>) >>) >>,
     << Cell(<< "Base", " ", "+", " ", "Update" >>, << >>), NoCell, NoCell,
        Cell(<< >>, << Anchor(L1, << "Mirror", " ", "2" >>) >>) >> >>

\* A download table with the rows of one fix only.
LinkTableFix ==
  << << Cell(<< "Fix", " ", "9.00" >>, << >>), NoCell, NoCell,
        Cell(<< >>, << Anchor(L2, << "Mirror", " ", "1" >>),
                       Anchor(L3, << "Mirror", " ", "2" >>) >>) >> >>

TorrentTableNoHref ==
  << << Cell(<< "Torrent" >>, << AnchorNoHref(<< "Torrent" >>) >>),
        Cell(<< >>, << >>) >> >>

\* A torrent row with no anchor, and one with two anchors.
TorrentTableNoAnchor ==
  << << Cell(<< "Torrent", " ", "soon" >>, << >>), NoCell >>,
     << Cell(<< "Torrent" >>, << Anchor(<< "magnet" >>, << "Torrent" >>),
                                 Anchor(L1, << "mirror" >>) >>),
        NoCell >> >>

TorrentTable ==
  << << Cell(<< "Torrent" >>, << Anchor(<< "magnet" >>, << "Torrent" >>) >>),
        Cell(<< >>, << >>) >> >>

DocFull == DetailDoc(<< << " ", "Game", ":", "A", " " >> >>, << InfoTable >>)
DocBare == DetailDoc(<< >>, << >>)
DocNoHref == DetailDoc(<< << "Game", "B" >> >>, << InfoTable, TorrentTableNoHref >>)

\* The documents a detail page may answer with: a full page, a page with no
\* title heading, a page with no table, a page with neither, pages with a
\* torrent row, whose anchor has an href or has none or which has no anchor,
\* pages with download tables, a page whose first table is not the attribute
\* table, pages with sizes in their text, and a document the parser raises on.
DetailDocs ==
  { DocFull,
    DetailDoc(<< >>, << InfoTable >>),
    DetailDoc(<< << "Game", "B" >> >>, << >>),
    DocBare,
    DetailDoc(<< << "Game", "B" >> >>, << InfoTable, TorrentTable >>),
    DocNoHref,
    DetailDoc(<< >>, << TorrentTableNoHref >>),
    DetailDoc(<< << "Game", "C" >> >>, << InfoTable, LinkTableA >>),
    DetailDoc(<< << "Game", "C" >> >>, << InfoTable, LinkTableB >>),
    DetailDoc(<< << "Game", "C" >> >>, << InfoTable, LinkTableA, TorrentTable, LinkTableFix >>),
    DetailDoc(<< << "Game", "D" >> >>, << LinkTableFix, TorrentTable >>),
    DetailDoc(<< << "Game", "E" >> >>, << ColonTable, InfoTable >>),
    DetailDoc(<< << "Game", "E" >> >>, << InfoTable, TorrentTableNoAnchor >>),
    DetailDocText(<< << "Game", "F" >> >>, << InfoTable, LinkTableA, TorrentTable >>,
                  SizesText),
    DetailDocText(<< << "Game", "F" >> >>, << >>, << "4", ".", "2", "\n", "G", "B" >>),
    [parsable |-> FALSE, h1 |-> << >>, tables |-> << >>, body |-> << >>] }

\* The detail documents the crawl is run on.
CrawlDetailDocs == {DocFull, DocBare, DocNoHref}

NoDetailDoc == DocBare

\* ------------------------------------------------------------ state

VARIABLES
  call,           \* SpecFetch: the call of make_request_with_retry under test
  events,         \* SpecFetch: what the call did so far, in order
  phase,          \* where main is
  pages,          \* future_to_page: the listing task of each page index
  all_game_urls,  \* main's list of discovered URLs (line 176)
  details,        \* future_to_url: the detail tasks, in submission order
  total_games,    \* main's success counter (line 173)
  files,          \* the results directory: file name -> content
  item,           \* SpecItem: the call of parse_and_save_game under test
  scan,           \* SpecScan: the call of process_page under test
  sizing,         \* SpecSizes: the page text the size search is run on
  writers         \* SpecWrite: two calls of parse_and_save_game at once

fetchVars == << call, events >>
crawlVars == << phase, pages, all_game_urls, details, total_games, files >>
sideVars == << scan, sizing, writers >>
vars ==
  << call, events, phase, pages, all_game_urls, details, total_games, files, item,
     scan, sizing, writers >>

Phases == << "Idle", "ScanningListings", "DiscoveringComplete", "FetchingDetails", "Done" >>

PhaseRank(ph) == CHOOSE i \in 1 .. Len(Phases) : Phases[i] = ph

PendingPage == [raised |-> FALSE, value |-> << >>, how |-> "pending"]
PendingDetail == [raised |-> FALSE, value |-> FALSE, how |-> "pending"] @@ NoWrite

\* A task of a pool: st is "new" (not submitted), "queued", "running" or
\* "done"; f is the task's call of make_request_with_retry, a local of the
\* task function, which is gone when it returns; out is what the task function
\* handed back; collected: main has taken future.result().
NewPageTask(p) ==
  [st |-> "new", f |-> NewCall(PageUrl(p), MAX_RETRIES), out |-> PendingPage,
   collected |-> FALSE]

NewDetailTask(url) ==
  [st |-> "queued", url |-> url, f |-> NewCall(url, MAX_RETRIES),
   out |-> PendingDetail, collected |-> FALSE]

\* One call of parse_and_save_game(url): doc is the document of its response.
NewItem(url) ==
  [st |-> "fetching", url |-> url, doc |-> NoDetailDoc, out |-> PendingDetail]

InitCrawl ==
  /\ phase = "Idle"
  /\ pages = [p \in 1 .. TOTAL_PAGES |-> NewPageTask(p)]
  /\ all_game_urls = << >>
  /\ details = << >>
  /\ total_games = 0
  /\ files = << >>

InitCall == call = NewCall(U1, MAX_RETRIES) /\ events = << >>

InitItem == item = NewItem(U1)

\* One call of process_page(page_number): doc is the document of its response.
NewScan(page_number) ==
  [st |-> "fetching", page_number |-> page_number, doc |-> NoListingDoc,
   out |-> PendingPage]

InitScan == scan = NewScan(1)

\* One search of the size tokens: the page text, and what was found in it.
NewSizing(text) ==
  [st |-> "new", text |-> text, spans |-> << >>, found |-> << >>, lines |-> << >>]

InitSizing == sizing = NewSizing(<< >>)

InitWriters == writers = << >>

InitSide == InitScan /\ InitSizing /\ InitWriters

\* ------------------------------------------------------------ one call

InitFetch ==
  /\ \E u \in URLS, m \in -1 .. MaxRetriesArg : call = NewCall(u, m)
  /\ events = << >>
  /\ InitCrawl
  /\ InitItem
  /\ InitSide

FetchAttempt ==
  /\ call.status = "running"
  /\ ~ LoopExhausted(call)
  /\ \E o \in Outcomes :
       /\ call' = Attempt(call, o)
       /\ events' = events \o AttemptEvents(call, o)
  /\ UNCHANGED << crawlVars, item, sideVars >>

FetchReturnNone ==
  /\ call.status = "running"
  /\ LoopExhausted(call)
  /\ call' = ReturnNone(call)
  /\ UNCHANGED events
  /\ UNCHANGED << crawlVars, item, sideVars >>

NextFetch == FetchAttempt \/ FetchReturnNone

SpecFetch == InitFetch /\ [][NextFetch]_vars

\* ------------------------------------------------------------ one item

\* The results directory after a call of parse_and_save_game.
Save(fs, out) == IF out.written THEN (out.name :> Lines(out.record)) @@ fs ELSE fs

InitOneItem ==
  /\ \E u \in URLS : call = NewCall(u, MAX_RETRIES) /\ item = NewItem(u)
  /\ events = << >>
  /\ InitCrawl
  /\ InitSide

\* The fetch of line 61, one iteration at a time; a successful request
\* answers with a document.
ItemAttempt ==
  /\ item.st = "fetching"
  /\ call.status = "running"
  /\ ~ LoopExhausted(call)
  /\ \E o \in Outcomes :
     \E doc \in (IF o = "ok" THEN DetailDocs ELSE {NoDetailDoc}) :
       /\ call' = Attempt(call, o)
       /\ events' = events \o AttemptEvents(call, o)
       /\ item' = [item EXCEPT !.doc = doc]
  /\ UNCHANGED << crawlVars, sideVars >>

\* The fetch has ended: the rest of parse_and_save_game (lines 62-147).
ItemFinish ==
  /\ item.st = "fetching"
  /\ call.status # "running"
  /\ \E write_ok \in BOOLEAN :
       LET out == parse_and_save_game(item.url, call, item.doc, write_ok)
       IN /\ item' = [item EXCEPT !.st = "done", !.out = out]
          /\ files' = Save(files, out)
  /\ UNCHANGED << phase, pages, all_game_urls, details, total_games, fetchVars, sideVars >>

NextItem == ItemAttempt \/ ItemFinish

SpecItem == InitOneItem /\ [][NextItem]_vars

\* ------------------------------------------------------------ one scan

InitOneScan ==
  /\ \E p \in 1 .. TOTAL_PAGES :
       call = NewCall(PageUrl(p), MAX_RETRIES) /\ scan = NewScan(p)
  /\ events = << >>
  /\ InitCrawl
  /\ InitItem
  /\ InitSizing
  /\ InitWriters

\* The fetch of line 152, one iteration at a time; a successful request
\* answers with a document.
ScanAttempt ==
  /\ scan.st = "fetching"
  /\ call.status = "running"
  /\ ~ LoopExhausted(call)
  /\ \E o \in Outcomes :
     \E doc \in (IF o = "ok" THEN ScanDocs ELSE {NoListingDoc}) :
       /\ call' = Attempt(call, o)
       /\ events' = events \o AttemptEvents(call, o)
       /\ scan' = [scan EXCEPT !.doc = doc]
  /\ UNCHANGED << crawlVars, item, sizing, writers >>

\* The fetch has ended: the rest of process_page (lines 153-168).
ScanFinish ==
  /\ scan.st = "fetching"
  /\ call.status # "running"
  /\ scan' = [scan EXCEPT !.st = "done", !.out = process_page(call, scan.doc)]
  /\ UNCHANGED << crawlVars, fetchVars, item, sizing, writers >>

NextScan == ScanAttempt \/ ScanFinish

SpecScan == InitOneScan /\ [][NextScan]_vars

\* ------------------------------------------------------------ one size search

\* Pieces of page text, character by character (a word without digits,
\* points, blanks or capitals of the unit stands as one character): the two
\* sizes of a sentence, sizes with no blank, a line break or two blanks
\* before the unit, with too many digits on either side of the point, with no
\* point, with the unit in lower case, and text between sizes.
SizeFragments ==
  { << "This game is ", "1", "2", ".", "3", "4", " ", "G", "B" >>,
    << ", patch adds ", "0", ".", "5", "6", " ", "G", "B" >>,
    << "7", ".", "5", "G", "B" >>,
    << "4", ".", "2", "\n", "G", "B" >>,
    << "1", ".", "5", " ", " ", "G", "B" >>,
    << "1", "2", "3", "4", ".", "5", "G", "B" >>,
    << "1", ".", "2", "3", "4", "G", "B" >>,
    << "3", "0", "G", "B" >>,
    << "2", ".", "5", " ", "g", "b" >>,
    << "9" >>,
    << "." >> }

\* The page texts of at most MaxFrags pieces.
SizeTexts ==
  {Flatten(fs) : fs \in UNION {[1 .. n -> SizeFragments] : n \in 0 .. MaxFrags}}

InitSizes ==
  /\ \E text \in SizeTexts : sizing = NewSizing(text)
  /\ InitCrawl
  /\ InitCall
  /\ InitItem
  /\ InitScan
  /\ InitWriters

\* Lines 85-86 and 124-128 on the page text.
SearchSizes ==
  /\ sizing.st = "new"
  /\ sizing' = [sizing EXCEPT !.st = "done",
                              !.spans = FindAll(sizing.text, 1),
                              !.found = size_matches(sizing.text),
                              !.lines = SizeLines(size_matches(sizing.text))]
  /\ UNCHANGED << crawlVars, fetchVars, item, scan, writers >>

NextSizes == SearchSizes

SpecSizes == InitSizes /\ [][NextSizes]_vars

\* ------------------------------------------------------------ the pools

\* The tasks of a pool that hold one of its worker threads.
RunningPages == {p \in 1 .. TOTAL_PAGES : pages[p].st = "running"}
RunningDetails == {i \in 1 .. Len(details) : details[i].st = "running"}

\* ThreadPoolExecutor(max_workers=THREADS): a worker is free to take a task.
WorkerFree(running) == Cardinality(running) < THREADS

\* One step of the task's call of make_request_with_retry: the loop is over
\* (line 57), or one more iteration with outcome o.
FetchStep(f, o) == IF LoopExhausted(f) THEN ReturnNone(f) ELSE Attempt(f, o)

\* The links the listing pages have served so far.
RECURSIVE LinksServed(_)
LinksServed(p) == IF p = 0 THEN 0 ELSE Len(pages[p].out.value) + LinksServed(p - 1)

\* ------------------------------------------------------------ two writers

\* Pages whose titles differ and give the same file name, with records of
\* different lengths, a page that gives another file name, and a page the
\* extraction raises on.
DocSameName ==
  DetailDocText(<< << "Game", "A", "?" >> >>, << InfoTable, LinkTableFix, TorrentTable >>,
                SizesText)

WriteDocs == {DocFull, DocSameName, DocBare, DocNoHref}

\* One call of parse_and_save_game(url) on a worker of the second pool, whose
\* request, when it succeeds, answers with doc. pc: "fetching" up to the
\* open of line 140, "opened" between the open and the write of line 141
\* (which reaches the file when the with block closes it), "done" after the
\* return; seq: the place of its write among the writes.
NewWriter(url, doc) ==
  [pc |-> "fetching", url |-> url, doc |-> doc, f |-> NewCall(url, MAX_RETRIES),
   out |-> PendingDetail, seq |-> 0]

InitWrite ==
  /\ \E u1 \in URLS, u2 \in URLS, d1 \in WriteDocs, d2 \in WriteDocs :
       writers = << NewWriter(u1, d1), NewWriter(u2, d2) >>
  /\ InitCrawl
  /\ InitCall
  /\ InitItem
  /\ InitScan
  /\ InitSizing

\* open(filepath, "w") (line 140): the file is created or emptied.
OpenTruncate(fs, name) == (name :> << >>) @@ fs

\* The mutant of WriteAt: the file is opened for appending.
WriteAt_Append(old, data) == old \o data

\* What a file holds after data is written to it from its start, through a
\* file object opened at position 0: what it held beyond the data stays.
WriteAt(old, data) == data \o SubSeq(old, Len(data) + 1, Len(old))

\* f.write("\n".join(lines)) and the close of the with block (lines 140-141).
WriteFile(fs, name, lines) == (name :> WriteAt(fs[name], lines)) @@ fs

\* One step of the fetch of line 61 and, when that ends the fetch, the
\* function up to its open of line 140 (or to its return when it does not get
\* there).
WriterStep(i) ==
  /\ writers[i].pc = "fetching"
  /\ \E o \in Outcomes, open_ok \in BOOLEAN :
       LET f == FetchStep(writers[i].f, o)
           out == parse_and_save_game(writers[i].url, f, writers[i].doc, open_ok)
       IN IF f.status = "running"
            THEN /\ writers' = [writers EXCEPT ![i].f = f]
                 /\ UNCHANGED files
            ELSE IF out.written
              THEN /\ writers' = [writers EXCEPT ![i].pc = "opened", ![i].f = f]
                   /\ files' = OpenTruncate(files, out.name)
              ELSE /\ writers' = [writers EXCEPT ![i].pc = "done", ![i].out = out,
                                                  ![i].f = f]
                   /\ UNCHANGED files
  /\ UNCHANGED << phase, pages, all_game_urls, details, total_games, fetchVars,
                  item, scan, sizing >>

\* Lines 141-143: the lines reach the file, the file is closed and the
\* function returns True.
WriterWrite(i) ==
  /\ writers[i].pc = "opened"
  /\ LET out == parse_and_save_game(writers[i].url, writers[i].f, writers[i].doc, TRUE)
     IN /\ files' = WriteFile(files, out.name, Lines(out.record))
        /\ writers' = [writers EXCEPT
             ![i].pc = "done", ![i].out = out,
             ![i].seq = 1 + Cardinality({j \in 1 .. Len(writers) : writers[j].seq > 0})]
  /\ UNCHANGED << phase, pages, all_game_urls, details, total_games, fetchVars,
                  item, scan, sizing >>

NextWrite ==
  \/ \E i \in 1 .. Len(writers) : WriterStep(i)
  \/ \E i \in 1 .. Len(writers) : WriterWrite(i)

SpecWrite == InitWrite /\ [][NextWrite]_vars

\* ------------------------------------------------------------ main, phase 1

\* Lines 171-177: main starts and opens the first pool.
Start ==
  /\ phase = "Idle"
  /\ phase' = "ScanningListings"
  /\ UNCHANGED << pages, all_game_urls, details, total_games, files, fetchVars, item, sideVars >>

\* Line 178: executor.submit(process_page, page) for the next page index.
SubmitPage ==
  /\ phase = "ScanningListings"
  /\ \E p \in 1 .. TOTAL_PAGES :
       /\ pages[p].st = "new"
       /\ \A q \in 1 .. p - 1 : pages[q].st # "new"
       /\ pages' = [pages EXCEPT ![p].st = "queued"]
  /\ UNCHANGED << phase, all_game_urls, details, total_games, files, fetchVars, item, sideVars >>

\* A free worker takes the oldest queued listing task.
StartPage ==
  /\ WorkerFree(RunningPages)
  /\ \E p \in 1 .. TOTAL_PAGES :
       /\ pages[p].st = "queued"
       /\ \A q \in 1 .. p - 1 : pages[q].st # "queued"
       /\ pages' = [pages EXCEPT ![p].st = "running"]
  /\ UNCHANGED << phase, all_game_urls, details, total_games, files, fetchVars, item, sideVars >>

\* process_page(p) on its worker: one step of the fetch of line 152 and, when
\* that ends the fetch, the rest of the function on the response document,
\* after which the future is done.
PageStep(p) ==
  /\ pages[p].st = "running"
  /\ \E o \in Outcomes :
     \E doc \in (IF o = "ok" THEN ListingDocs ELSE {NoListingDoc}) :
       LET f == FetchStep(pages[p].f, o)
           out == process_page(f, doc)
       IN /\ LinksServed(TOTAL_PAGES) + Len(out.value) <= MaxLinks
          /\ pages' = [pages EXCEPT ![p] =
               IF f.status = "running" THEN [@ EXCEPT !.f = f]
               ELSE [@ EXCEPT !.st = "done", !.out = out,
                              !.f = NewCall(PageUrl(p), MAX_RETRIES)]]
  /\ UNCHANGED << phase, all_game_urls, details, total_games, files, fetchVars, item, sideVars >>

\* The mutant of AllPagesCollected: the loop is left at the first result.
AllPagesCollected_First == \E p \in 1 .. TOTAL_PAGES : pages[p].collected

\* Every future of the first pool has been taken by the loop of line 179.
AllPagesCollected == \A p \in 1 .. TOTAL_PAGES : pages[p].collected

\* The mutant of ExtendUrls: the list is replaced, not extended.
ExtendUrls_Overwrite(urls, out) == IF out.raised THEN urls ELSE out.value

\* Lines 181-186: all_game_urls after one future's result.
ExtendUrls(urls, out) == IF out.raised THEN urls ELSE urls \o out.value

\* Lines 179-186: as_completed hands main a finished listing future; its
\* result extends all_game_urls, an exception of it is logged.
CollectPage(p) ==
  /\ phase = "ScanningListings"
  /\ \A q \in 1 .. TOTAL_PAGES : pages[q].st # "new"
  /\ pages[p].st = "done"
  /\ ~ pages[p].collected
  /\ pages' = [pages EXCEPT ![p].collected = TRUE]
  /\ all_game_urls' = ExtendUrls(all_game_urls, pages[p].out)
  /\ UNCHANGED << phase, details, total_games, files, fetchVars, item, sideVars >>

\* The loop of line 179 is over and the with block of line 177 is left.
FinishScan ==
  /\ phase = "ScanningListings"
  /\ AllPagesCollected
  /\ phase' = "DiscoveringComplete"
  /\ UNCHANGED << pages, all_game_urls, details, total_games, files, fetchVars, item, sideVars >>

\* ------------------------------------------------------------ main, phase 2

\* Line 189: main opens the second pool. The lists the listing futures hold
\* are not read again, and are dropped here.
StartDetails ==
  /\ phase = "DiscoveringComplete"
  /\ phase' = "FetchingDetails"
  /\ pages' = [p \in 1 .. TOTAL_PAGES |-> [pages[p] EXCEPT !.out.value = << >>]]
  /\ UNCHANGED << all_game_urls, details, total_games, files, fetchVars, item, sideVars >>

\* The URLs line 190 submits a task for, in order.
UrlsToSubmit == all_game_urls

\* Line 190: executor.submit(parse_and_save_game, url) for the next URL.
SubmitDetail ==
  /\ phase = "FetchingDetails"
  /\ Len(details) < Len(UrlsToSubmit)
  /\ details' = Append(details, NewDetailTask(UrlsToSubmit[Len(details) + 1]))
  /\ UNCHANGED << phase, pages, all_game_urls, total_games, files, fetchVars, item, sideVars >>

\* A free worker takes the oldest queued detail task.
StartDetail ==
  /\ WorkerFree(RunningDetails)
  /\ \E i \in 1 .. Len(details) :
       /\ details[i].st = "queued"
       /\ \A j \in 1 .. i - 1 : details[j].st # "queued"
       /\ details' = [details EXCEPT ![i].st = "running"]
  /\ UNCHANGED << phase, pages, all_game_urls, total_games, files, fetchVars, item, sideVars >>

\* parse_and_save_game(url) on its worker: one step of the fetch of line 61
\* and, when that ends the fetch, the rest of the function on the response
\* document, the file of lines 138-141 included, after which the future is
\* done.
DetailStep(i) ==
  /\ details[i].st = "running"
  /\ \E o \in Outcomes :
     \E doc \in (IF o = "ok" THEN CrawlDetailDocs ELSE {NoDetailDoc}),
        write_ok \in (IF o = "ok" THEN BOOLEAN ELSE {TRUE}) :
       LET f == FetchStep(details[i].f, o)
           out == parse_and_save_game(details[i].url, f, doc, write_ok)
       IN IF f.status = "running"
            THEN /\ details' = [details EXCEPT ![i].f = f]
                 /\ UNCHANGED files
            ELSE /\ details' = [details EXCEPT ![i] =
                      [@ EXCEPT !.st = "done", !.out = out,
                                !.f = NewCall(details[i].url, MAX_RETRIES)]]
                 /\ files' = Save(files, out)
  /\ UNCHANGED << phase, pages, all_game_urls, total_games, fetchVars, item, sideVars >>

\* The mutant of CountSuccess: the counter is set, not incremented.
CountSuccess_Set(n, out) == IF ~ out.raised /\ out.value THEN 1 ELSE n

\* Lines 193-198: the counter after one future's result.
CountSuccess(n, out) == IF ~ out.raised /\ out.value THEN n + 1 ELSE n

\* Lines 191-198: as_completed hands main a finished detail future.
CollectDetail(i) ==
  /\ phase = "FetchingDetails"
  /\ Len(details) = Len(UrlsToSubmit)
  /\ details[i].st = "done"
  /\ ~ details[i].collected
  /\ details' = [details EXCEPT ![i].collected = TRUE]
  /\ total_games' = CountSuccess(total_games, details[i].out)
  /\ UNCHANGED << phase, pages, all_game_urls, files, fetchVars, item, sideVars >>

AllDetailsCollected ==
  /\ Len(details) = Len(UrlsToSubmit)
  /\ \A i \in 1 .. Len(details) : details[i].collected

\* The loop of line 191 is over, the with block of line 189 is left and the
\* totals are logged (lines 200-202).
Finish ==
  /\ phase = "FetchingDetails"
  /\ AllDetailsCollected
  /\ phase' = "Done"
  /\ UNCHANGED << pages, all_game_urls, details, total_games, files, fetchVars, item, sideVars >>

Init == InitCrawl /\ InitCall /\ InitItem /\ InitSide

Next ==
  \/ Start
  \/ SubmitPage
  \/ StartPage
  \/ \E p \in 1 .. TOTAL_PAGES : PageStep(p)
  \/ \E p \in 1 .. TOTAL_PAGES : CollectPage(p)
  \/ FinishScan
  \/ StartDetails
  \/ SubmitDetail
  \/ StartDetail
  \/ \E i \in 1 .. Len(details) : DetailStep(i)
  \/ \E i \in 1 .. Len(details) : CollectDetail(i)
  \/ Finish

Spec == Init /\ [][Next]_vars

\* A running pool runs its tasks and main runs: no enabled step waits for ever.
FairSpec == Spec /\ WF_vars(Next)

\* ------------------------------------------------------------ properties
\* of one call of make_request_with_retry (SpecFetch)

\* The request attempts the call has made, in order.
Requests == SelectSeq(events, LAMBDA e : e.ev = "request")

CallEnded == call.status # "running"

AllFailed(r) == \A i \in 1 .. Len(r) : r[i].outcome # "ok"

\* C1: for every max_retries >= 0 a call makes exactly max_retries + 1
\* request attempts when every attempt fails, whatever the kinds of the
\* failures, and makes no attempt after a successful one (so exactly one when
\* the first succeeds).
C1_AttemptCount ==
  LET r == Requests
      n == Len(r)
  IN call.max_retries >= 0 =>
       /\ \A i \in 1 .. n : r[i].attempt = i - 1
       /\ \A i \in 1 .. n : r[i].outcome = "ok" => i = n
       /\ n <= call.max_retries + 1
       /\ ~ CallEnded => AllFailed(r) /\ n < call.max_retries + 1
       /\ CallEnded =>
            /\ n >= 1
            /\ AllFailed(r) => n = call.max_retries + 1
            /\ r[1].outcome = "ok" => n = 1

\* A call that has ended after max_retries + 1 >= 3 failures of every kind.
C1_Witness ==
  /\ CallEnded
  /\ call.max_retries >= 2
  /\ AllFailed(Requests)
  /\ Len(Requests) = call.max_retries + 1
  /\ {Requests[i].outcome : i \in 1 .. Len(Requests)} = FailureKinds

LastFailed == Requests # << >> /\ Requests[Len(Requests)].outcome # "ok"

\* C6, as claimed: when the last allowed attempt fails, the call returns a
\* failure value to its caller that carries the number of attempts made,
\* max_retries + 1.
C6_ReturnsFetchFailure ==
  (CallEnded /\ LastFailed) =>
    /\ call.status = "returned"
    /\ call.logged = call.max_retries + 1

\* C6, amended: when the last allowed attempt fails, the call returns nothing:
\* it raises the error of that attempt, after max_retries + 1 attempts; the
\* error carries no count, and the count its error log line names is
\* max_retries.
C6_RaisesLastError ==
  (CallEnded /\ LastFailed) =>
    /\ call.status = "raised"
    /\ call.value = Requests[Len(Requests)].outcome
    /\ Len(Requests) = call.max_retries + 1
    /\ call.logged = call.max_retries

\* A call that has ended on the failure of its third attempt.
C6_Witness ==
  /\ CallEnded
  /\ LastFailed
  /\ call.max_retries = 2
  /\ Len(Requests) = 3

\* C7: the pacing delay REQUEST_DELAY is waited right before every request,
\* the first included; the retry delay RETRY_DELAY is waited after a failed
\* request that has attempts remaining, before the next pacing delay, and
\* neither after a successful request nor after the last failed one; both
\* delays are the same on every attempt.
C7_DelayOrder ==
  LET n == Len(events)
  IN \A i \in 1 .. n :
       LET e == events[i]
       IN /\ e.ev = "pace" =>
               /\ e.secs = REQUEST_DELAY
               /\ i = 1 \/ events[i - 1].ev = "retry_wait"
               /\ i < n /\ events[i + 1].ev = "request"
          /\ e.ev = "request" =>
               /\ i > 1 /\ events[i - 1].ev = "pace"
               /\ IF e.outcome # "ok" /\ e.attempt < call.max_retries
                    THEN i < n /\ events[i + 1].ev = "retry_wait"
                    ELSE i = n
          /\ e.ev = "retry_wait" =>
               /\ e.secs = RETRY_DELAY
               /\ events[i - 1].ev = "request"
               /\ events[i - 1].outcome # "ok"
               /\ events[i - 1].attempt < call.max_retries
               /\ i < n => events[i + 1].ev = "pace"
               /\ i = n => ~ CallEnded

\* A call that has ended after two retries: a failure, a failure, a success.
C7_Witness ==
  /\ CallEnded
  /\ call.status = "returned"
  /\ Len(Requests) = 3
  /\ Len(events) = 8

\* ------------------------------------------------------------ properties
\* of main (Spec, FairSpec)

PageDone(p) == pages[p].st = "done"
AllPagesDone == \A p \in 1 .. TOTAL_PAGES : PageDone(p) /\ pages[p].collected

FailedHow == {"fetch_failed", "parse_failed", "write_failed", "no_response"}

\* The detail tasks that returned True.
Succeeded == {i \in 1 .. Len(details) :
                details[i].st = "done" /\ ~ details[i].out.raised /\ details[i].out.value}

\* How often u occurs in the sequence s.
Count(u, s) == Cardinality({i \in 1 .. Len(s) : s[i] = u})

RECURSIVE CountCollected(_, _)
\* How often u occurs in the lists of the listing futures main has taken.
CountCollected(u, p) ==
  IF p = 0 THEN 0
  ELSE (IF pages[p].collected THEN Count(u, pages[p].out.value) ELSE 0)
         + CountCollected(u, p - 1)

\* No detail task exists before every listing task is done and taken, the
\* listing tasks run in ScanningListings only and the detail tasks exist from
\* FetchingDetails on only.
PhasesApart ==
  /\ details # << >> => AllPagesDone
  /\ phase \in {"DiscoveringComplete", "FetchingDetails", "Done"} => AllPagesDone
  /\ phase \in {"Idle", "ScanningListings", "DiscoveringComplete"} => details = << >>
  /\ phase = "Idle" => \A p \in 1 .. TOTAL_PAGES : pages[p].st = "new"

\* main stays in its phase or moves to the next one.
PhaseForward ==
  PhaseRank(phase') \in {PhaseRank(phase), PhaseRank(phase) + 1}

\* C2: the two phases are strictly sequential: no detail task is submitted or
\* started before every listing task of 1..TOTAL_PAGES has completed, and main
\* only moves forward along Idle, ScanningListings, DiscoveringComplete,
\* FetchingDetails, Done.
C2_PhasesSequential == [] PhasesApart /\ [][PhaseForward]_vars

\* A detail task runs, another one waits in the queue or is done.
C2_Witness ==
  /\ phase = "FetchingDetails"
  /\ Len(details) = 2
  /\ details[1].st = "done"
  /\ details[2].st = "running"

\* C3: the failure of a single listing or detail task never aborts the run:
\* when main is done every page index was scanned and taken, every discovered
\* URL had its task run to its end and taken, every task that succeeded has
\* written its file, and the total counts all the tasks that succeeded.
C3_NoAbort ==
  phase = "Done" =>
    /\ AllPagesDone
    /\ \A p \in 1 .. TOTAL_PAGES : ~ pages[p].out.raised
    /\ Len(details) = Len(all_game_urls)
    /\ \A i \in 1 .. Len(details) :
         /\ details[i].url = all_game_urls[i]
         /\ details[i].st = "done" /\ details[i].collected
         /\ ~ details[i].out.raised
         /\ details[i].out.value <=> details[i].out.how = "ok"
         /\ details[i].out.value =>
              /\ details[i].out.written
              /\ details[i].out.name \in DOMAIN files
              /\ files[details[i].out.name] \in
                   {Lines(details[j].out.record) : j \in Succeeded}
    /\ total_games = Cardinality(Succeeded)

\* main is done; a listing task and a detail task have failed, another
\* detail task has succeeded and was counted.
C3_Witness ==
  /\ phase = "Done"
  /\ \E p \in 1 .. TOTAL_PAGES : pages[p].out.how \in FailedHow
  /\ \E i, j \in 1 .. Len(details) :
       /\ details[i].out.how \in FailedHow
       /\ details[j].out.how = "ok"
  /\ total_games = 1

\* C4, as claimed: a detail URL that the listing scans return twice or more
\* is given to one detail task only.
C4_Deduplicated ==
  \A i, j \in 1 .. Len(details) : details[i].url = details[j].url => i = j

\* C8: process_page never raises to its caller: when the fetch fails on all
\* its attempts, or the parser raises, it returns the empty list, so the
\* future of a listing task never raises.
C8_ScanNeverRaises ==
  \A p \in 1 .. TOTAL_PAGES :
    /\ ~ pages[p].out.raised
    /\ pages[p].out.how \in FailedHow => pages[p].out.value = << >>
    /\ PageDone(p) <=> pages[p].out.how # "pending"
    /\ pages[p].out.how \in {"pending", "ok", "fetch_failed", "parse_failed"}

\* One listing task has failed on its fetch, another one on its parse; main
\* has taken both.
C8_Witness ==
  /\ phase = "DiscoveringComplete"
  /\ \E p, q \in 1 .. TOTAL_PAGES :
       /\ pages[p].out.how = "fetch_failed"
       /\ pages[q].out.how = "parse_failed"
  /\ all_game_urls = << >>

\* C9: the list of discovered URLs and the success counter are changed by
\* main only, one taken future at a time: whatever the order the tasks
\* complete in, the list given to phase 2 holds exactly the URLs the listing
\* scans returned, each as often as returned, and the counter is the number
\* of taken detail tasks that returned success.
C9_Aggregation ==
  /\ phase \in {"Idle", "ScanningListings", "DiscoveringComplete"} =>
       /\ \A u \in URLS : Count(u, all_game_urls) = CountCollected(u, TOTAL_PAGES)
       /\ \A i \in 1 .. Len(all_game_urls) : all_game_urls[i] \in URLS
  /\ total_games = Cardinality({i \in Succeeded : details[i].collected})
  /\ phase = "Done" => total_games = Cardinality(Succeeded)

\* The listing task of page 2 was taken before the one of page 1: the list
\* holds the URL of page 2 first.
C9_Witness ==
  /\ phase = "DiscoveringComplete"
  /\ pages[1].out.value = << U1 >>
  /\ pages[2].out.value = << U2 >>
  /\ all_game_urls = << U2, U1 >>

\* The second detail task was done and counted before the first.
C9_WitnessCount ==
  /\ phase = "FetchingDetails"
  /\ Len(details) = 2
  /\ details[2].collected /\ details[2].out.value
  /\ details[1].st = "done" /\ details[1].out.value /\ ~ details[1].collected
  /\ total_games = 1

\* No call of make_request_with_retry goes beyond max_retries + 1 attempts.
AttemptsBounded ==
  /\ \A p \in 1 .. TOTAL_PAGES : pages[p].f.attempt <= MAX_RETRIES
  /\ \A i \in 1 .. Len(details) : details[i].f.attempt <= MAX_RETRIES

\* C10: every run ends in Done: with every request attempt and delay ending
\* and the workers running, main finishes both phases, whatever URLs succeed
\* or fail for good; every fetch call ends within max_retries + 1 attempts.
C10_Terminates == <>(phase = "Done") /\ [] AttemptsBounded

\* main is done after a detail fetch failed for good and another succeeded.
C10_Witness ==
  /\ phase = "Done"
  /\ \E i, j \in 1 .. Len(details) :
       /\ details[i].out.how = "fetch_failed"
       /\ details[j].out.how = "ok"

\* The call returned None (line 57).
ReturnedNone == call.status = "returned" /\ call.value = "None"

\* C19: for every max_retries >= 0 a call never returns None: it returns the
\* response of a successful attempt or raises the error of its last attempt,
\* so process_page and parse_and_save_game never take their "if not
\* response" branch and meet every fetch failure in their exception handler;
\* None is returned only for max_retries < 0, and then without any request.
C19_NeverNone ==
  CallEnded =>
    /\ call.max_retries >= 0 =>
         /\ ~ ReturnedNone
         /\ \/ /\ call.status = "returned" /\ call.value = "response"
               /\ ~ LastFailed
            \/ /\ call.status = "raised" /\ LastFailed
               /\ call.value = Requests[Len(Requests)].outcome
         /\ process_page(call, NoListingDoc).how # "no_response"
         /\ parse_and_save_game(call.url, call, NoDetailDoc, TRUE).how # "no_response"
         /\ LastFailed =>
              /\ process_page(call, NoListingDoc).how = "fetch_failed"
              /\ parse_and_save_game(call.url, call, NoDetailDoc, TRUE).how = "fetch_failed"
    /\ ReturnedNone => call.max_retries < 0 /\ Requests = << >> /\ events = << >>
    /\ call.max_retries < 0 => ReturnedNone

\* A call with max_retries = 0 whose only attempt failed: it has raised.
C19_Witness ==
  /\ CallEnded
  /\ call.max_retries = 0
  /\ Len(Requests) = 1
  /\ LastFailed
  /\ call.status = "raised"

\* ------------------------------------------------------------ properties
\* of one call of parse_and_save_game (SpecItem)

Fetched == call.status = "returned" /\ call.value = "response"

\* C5, as claimed: a file is written only if the fetch succeeded; a fetch that
\* fails on all its max_retries + 1 attempts gives no file and a non-success
\* result that is not raised and not counted; a page that was fetched and
\* parsed but lacks the title heading or the table gives a written record
\* with "Unknown" in the missing fields (the write itself succeeding).
C5_RecordIffFetched ==
  item.st = "done" =>
    /\ item.out.written => Fetched
    /\ call.status = "raised" =>
         /\ Len(Requests) = call.max_retries + 1
         /\ ~ item.out.written /\ files = << >>
         /\ ~ item.out.raised /\ ~ item.out.value
         /\ CountSuccess(0, item.out) = 0
    /\ (/\ Fetched
        /\ item.doc.parsable
        /\ item.doc.h1 = << >> \/ item.doc.tables = << >>
        /\ item.out.how # "write_failed") =>
         /\ item.out.written /\ item.out.value
         /\ files[item.out.name] = Lines(item.out.record)
         /\ item.doc.h1 = << >> => item.out.record.name = UNKNOWN
         /\ item.doc.tables = << >> =>
              /\ item.out.record.version = UNKNOWN
              /\ item.out.record.language = UNKNOWN
              /\ item.out.record.firmware = UNKNOWN

\* ------------------------------------------------------------ properties
\* of one call of process_page (SpecScan)

\* The year marker and the platform token in an href, as the listing filter
\* is specified: the platform in any spelling of its letters' case.
HasYearMarker(href) == \E i \in 1 .. Len(href) : href[i] = "/20"
HasPlatformToken(href) == \E i \in 1 .. Len(href) : href[i] \in {"ps4", "PS4", "Ps4"}

WantedLink(a) == a.has_href /\ HasYearMarker(a.href) /\ HasPlatformToken(a.href)

ExpectedHrefs(anchors) ==
  LET kept == SelectSeq(anchors, WantedLink)
  IN [i \in 1 .. Len(kept) |-> kept[i].href]

ScanOk == scan.st = "done" /\ scan.out.how = "ok"

\* C11: for every listing page, the scan of a fetched and parsed page returns
\* exactly the hrefs of the title links that contain the year marker and, in
\* any letter case, the platform token "ps4", in document order and with
\* repeated links repeated; no returned href lacks the platform token and no
\* link without an href is returned.
C11_ListingFilter ==
  ScanOk =>
    /\ scan.out.value = ExpectedHrefs(scan.doc.anchors)
    /\ \A i \in 1 .. Len(scan.out.value) : HasPlatformToken(scan.out.value[i])
    /\ \A i \in 1 .. Len(scan.out.value) :
         \E j \in 1 .. Len(scan.doc.anchors) :
           scan.doc.anchors[j].has_href /\ scan.doc.anchors[j].href = scan.out.value[i]

\* A scan of a page with a link without href, a link to another platform, a
\* link without the year marker and a mixed-case link listed twice.
C11_Witness ==
  /\ ScanOk
  /\ scan.out.value = << U_MIXED, U1, U_MIXED >>
  /\ Len(scan.doc.anchors) = 6
  /\ \E j \in 1 .. 6 : ~ scan.doc.anchors[j].has_href
  /\ \E j \in 1 .. 6 : scan.doc.anchors[j].href = U_PS5

\* ------------------------------------------------------------ properties
\* of the extraction (SpecItem)

\* The call has ended with the page's file written.
ItemWritten == item.st = "done" /\ item.out.written

\* The rows of every table of the page, in document order.
PageRows(doc) == Flatten(doc.tables)

\* The lowercase text of a row's first cell, and the words in it.
LabelOf(row) == Lower(Strip(row[1].text))
HasWord(label, w) == \E i \in 1 .. Len(label) : label[i] = w

\* The anchors with an href in a row's fourth cell, as "href - text".
LinksOf(row) ==
  LET with_href == SelectSeq(row[4].anchors, LAMBDA a : a.has_href)
  IN [i \in 1 .. Len(with_href) |->
        with_href[i].href \o << " - " >> \o Strip(with_href[i].text)]

InSection(link, sec) ==
  \E i \in 1 .. Len(item.out.record.links[sec]) : item.out.record.links[sec][i] = link

\* C12, as claimed: a row with at least 4 cells whose label contains "base"
\* has its links in Base Game, one whose label contains "update" but not
\* "fix" has them in Update, and one whose label contains "fix" has them in
\* Fix.
C12_ClassifiedByLabel ==
  ItemWritten =>
    \A r \in 1 .. Len(PageRows(item.doc)) :
      LET row == PageRows(item.doc)[r]
      IN Len(row) >= 4 =>
           \A k \in 1 .. Len(LinksOf(row)) :
             /\ HasWord(LabelOf(row), "base") => InSection(LinksOf(row)[k], "Base Game")
             /\ (HasWord(LabelOf(row), "update") /\ ~ HasWord(LabelOf(row), "fix"))
                  => InSection(LinksOf(row)[k], "Update")
             /\ HasWord(LabelOf(row), "fix") => InSection(LinksOf(row)[k], "Fix")

\* The one category of a label when the tests are taken in order: "base"
\* first, then "fix", then "update".
CategoryOf(label) ==
  IF HasWord(label, "base") THEN "Base Game"
  ELSE IF HasWord(label, "fix") THEN "Fix"
  ELSE IF HasWord(label, "update") THEN "Update"
  ELSE "none"

\* The links of the rows with at least 4 cells that belong to a category, in
\* document order.
ExpectedLinks(doc, sec) ==
  Flatten([r \in 1 .. Len(PageRows(doc)) |->
             IF Len(PageRows(doc)[r]) >= 4 /\ CategoryOf(LabelOf(PageRows(doc)[r])) = sec
               THEN LinksOf(PageRows(doc)[r])
               ELSE << >>])

\* C12, amended: the category of a row with at least 4 cells depends only on
\* the lowercase text of its first cell, the tests taken in order ("base",
\* else "fix", else "update", else none); Base Game, Update and Fix hold
\* exactly the "href - text" links of the anchors with href in the fourth cells
\* of their rows, in document order, each row's links in one category, and
\* nothing from rows with fewer than 4 cells.
C12_ClassifiedByPriority ==
  ItemWritten =>
    \A sec \in {"Base Game", "Update", "Fix"} :
      item.out.record.links[sec] = ExpectedLinks(item.doc, sec)

\* A written page whose labels pass two tests: the rows "Base + Fix" and
\* "Base + Update" are in Base Game, "Update Fix" is in Fix.
C12_Witness ==
  /\ ItemWritten
  /\ item.doc.tables = << InfoTable, LinkTableB >>
  /\ item.out.record.links["Base Game"] =
       << L6 \o << " - ", "Mirror", " ", "1" >>, L1 \o << " - ", "Mirror", " ", "2" >> >>
  /\ item.out.record.links["Fix"] = << L4 \o << " - ", "Mirror", " ", "2" >> >>
  /\ item.out.record.links["Update"] = << L5 \o << " - ", "Mirror", " ", "1" >> >>

\* The key and the value of an attribute row as specified: the first cell's
\* trimmed text without a trailing colon, every other character kept, and the
\* second cell's trimmed text.
StripTrailingColon(t) ==
  IF t # << >> /\ t[Len(t)] = ":" THEN SubSeq(t, 1, Len(t) - 1) ELSE t

ClaimedKey(row) == StripTrailingColon(Strip(row[1].text))

\* The value under a key in the mapping of the first table, the last row of
\* the key winning, "Unknown" when no row has the key.
ClaimedValue(doc, key) ==
  LET rows == IF doc.tables = << >> THEN << >> ELSE doc.tables[1]
      hits == {r \in 1 .. Len(rows) : Len(rows[r]) >= 2 /\ ClaimedKey(rows[r]) = key}
  IN IF hits = {} THEN UNKNOWN
     ELSE Strip(rows[CHOOSE r \in hits : \A q \in hits : q <= r][2].text)

\* C13, as claimed: version, language and firmware of a written record are
\* the values under the exact keys "Game Version", "Language" and "Required
\* firmware" of the mapping of the page's first table, whose keys are the
\* first cells' trimmed texts with a trailing colon stripped and every other
\* colon kept, the last row of a key winning; each is "Unknown" when its key
\* is absent.
C13_AttributeMapping ==
  ItemWritten =>
    /\ item.out.record.version = ClaimedValue(item.doc, << "Game Version" >>)
    /\ item.out.record.language = ClaimedValue(item.doc, << "Language" >>)
    /\ item.out.record.firmware = ClaimedValue(item.doc, << "Required firmware" >>)

\* The lines of the written file after its "Download Links:" line.
LinkLines ==
  LET content == files[item.out.name]
      at == CHOOSE i \in 1 .. Len(content) : content[i] = << "\nDownload Links:" >>
  IN SubSeq(content, at + 1, Len(content))

Heading(sec) == << "\n[", sec, "]" >>

HeadingAt(sec) == {i \in 1 .. Len(LinkLines) : LinkLines[i] = Heading(sec)}

IsHeading(line) == \E i \in 1 .. Len(SECTIONS) : line = Heading(SECTIONS[i])

Collected(sec) == item.out.record.links[sec]

BlockLen(sec) == IF Collected(sec) # << >> THEN 1 + Len(Collected(sec)) ELSE 0

\* C15: in the written record, the Download Links section has one labelled
\* subsection for each category with at least one link and none for a
\* category without links; the subsections are in the order Base Game, Update,
\* Fix, Torrent, and each lists its entries in the order they were collected
\* (and the section has no other line).
C15_DownloadSections ==
  ItemWritten =>
    /\ \A i \in 1 .. Len(SECTIONS) :
         LET sec == SECTIONS[i]
         IN IF Collected(sec) = << >> THEN HeadingAt(sec) = {}
            ELSE /\ Cardinality(HeadingAt(sec)) = 1
                 /\ \A h \in HeadingAt(sec) :
                      /\ h + Len(Collected(sec)) <= Len(LinkLines)
                      /\ \A k \in 1 .. Len(Collected(sec)) :
                           LinkLines[h + k] = << "- " >> \o Collected(sec)[k]
                      /\ h + Len(Collected(sec)) < Len(LinkLines) =>
                           IsHeading(LinkLines[h + Len(Collected(sec)) + 1])
    /\ \A i \in 1 .. Len(SECTIONS), j \in 1 .. Len(SECTIONS) :
         i < j => \A h \in HeadingAt(SECTIONS[i]), g \in HeadingAt(SECTIONS[j]) : h < g
    /\ SECTIONS = << "Base Game", "Update", "Fix", "Torrent" >>
    /\ Len(LinkLines) =
         BlockLen("Base Game") + BlockLen("Update") + BlockLen("Fix") + BlockLen("Torrent")

\* A written record with links of Fix and Torrent only: the section is the
\* Fix heading, its two entries, the Torrent heading and its entry.
C15_Witness ==
  /\ ItemWritten
  /\ Collected("Base Game") = << >> /\ Collected("Update") = << >>
  /\ Len(Collected("Fix")) = 2 /\ Len(Collected("Torrent")) = 1
  /\ LinkLines = << Heading("Fix"), << "- " >> \o Collected("Fix")[1],
                    << "- " >> \o Collected("Fix")[2],
                    Heading("Torrent"), << "- " >> \o Collected("Torrent")[1] >>

\* The rows of exactly 2 cells whose first cell's lowercase text contains
\* "torrent".
TorrentRows(doc) ==
  {r \in 1 .. Len(PageRows(doc)) :
     Len(PageRows(doc)[r]) = 2 /\ HasWord(Lower(PageRows(doc)[r][1].text), "torrent")}

\* C18, as claimed: a torrent row appends at most one entry to Torrent, the
\* formatted link of the first anchor of its first cell, or nothing when the
\* cell has no anchor; whether such a row has no anchor or an anchor without
\* href, the extraction of a fetched and parsed page does not fail and its
\* record is written (the write itself succeeding).
C18_TorrentRowTolerant ==
  (/\ item.st = "done"
   /\ Fetched
   /\ item.doc.parsable
   /\ item.out.how # "write_failed") =>
    /\ item.out.how = "ok" /\ item.out.written /\ item.out.value
    /\ item.out.name \in DOMAIN files
    /\ Len(item.out.record.links["Torrent"]) <= Cardinality(TorrentRows(item.doc))
    /\ (\A r \in TorrentRows(item.doc) :
          \A k \in 1 .. Len(PageRows(item.doc)[r][1].anchors) :
            PageRows(item.doc)[r][1].anchors[k].has_href) =>
         item.out.record.links["Torrent"] =
           Flatten([r \in 1 .. Len(PageRows(item.doc)) |->
                      IF r \in TorrentRows(item.doc)
                           /\ PageRows(item.doc)[r][1].anchors # << >>
                        THEN << PageRows(item.doc)[r][1].anchors[1].href \o << " - " >>
                                  \o Strip(PageRows(item.doc)[r][1].anchors[1].text) >>
                        ELSE << >>])

\* ------------------------------------------------------------ properties
\* of the size search (SpecSizes)

\* A size token of n characters starts at position p of t: 1 to 3 digits, a
\* point, 1 to 2 digits, at most one character of blanks, "G", "B".
TokenAt(t, p, n, blanks) ==
  \E k \in 1 .. 3, j \in 1 .. 2, b \in 0 .. 1 :
    /\ n = k + 1 + j + b + 2
    /\ p + n - 1 <= Len(t)
    /\ \A i \in 0 .. k - 1 : t[p + i] \in DIGITS
    /\ t[p + k] = "."
    /\ \A i \in 1 .. j : t[p + k + i] \in DIGITS
    /\ b = 1 => t[p + k + j + 1] \in blanks
    /\ t[p + n - 2] = "G"
    /\ t[p + n - 1] = "B"

TokenStarts(t, blanks) ==
  {p \in 1 .. Len(t) : \E n \in 5 .. 9 : TokenAt(t, p, n, blanks)}

\* The sizes found are the tokens of the text, left to right: each is a
\* token where it was found, they follow one another without overlap, and no
\* token starts outside them; the lines list them, or the one sentinel.
SizesAreTokens(blanks) ==
  sizing.st = "done" =>
    /\ Len(sizing.found) = Len(sizing.spans)
    /\ \A i \in 1 .. Len(sizing.spans) :
         /\ TokenAt(sizing.text, sizing.spans[i].start, sizing.spans[i].len, blanks)
         /\ sizing.found[i] =
              SubSeq(sizing.text, sizing.spans[i].start,
                     sizing.spans[i].start + sizing.spans[i].len - 1)
         /\ i > 1 => sizing.spans[i - 1].start + sizing.spans[i - 1].len
                       <= sizing.spans[i].start
    /\ \A p \in TokenStarts(sizing.text, blanks) :
         \E i \in 1 .. Len(sizing.spans) :
           sizing.spans[i].start <= p /\ p < sizing.spans[i].start + sizing.spans[i].len
    /\ sizing.lines # << >>
    /\ sizing.found # << >> =>
         sizing.lines = [i \in 1 .. Len(sizing.found) |-> << "- " >> \o sizing.found[i]]
    /\ sizing.found = << >> => sizing.lines = << << "- ", "Unknown" >> >>

\* C14, as claimed: the sizes of a page are exactly the tokens of its text of
\* the form 1 to 3 digits, a point, 1 to 2 digits, an optional single space,
\* "GB", in order of appearance, and the record lists the sentinel "Unknown"
\* when there is none.
C14_SizeTokensSpace == SizesAreTokens({" "})

\* C14, amended: the same with an optional single whitespace character (a
\* space, a tab or a line break) before "GB".
C14_SizeTokens == SizesAreTokens(WHITESPACE)

\* The sentence "This game is 12.34 GB, patch adds 0.56 GB" gives the two
\* sizes in that order.
C14_Witness ==
  /\ sizing.st = "done"
  /\ sizing.text = << "This game is ", "1", "2", ".", "3", "4", " ", "G", "B",
                      ", patch adds ", "0", ".", "5", "6", " ", "G", "B" >>
  /\ sizing.found = << << "1", "2", ".", "3", "4", " ", "G", "B" >>,
                       << "0", ".", "5", "6", " ", "G", "B" >> >>
  /\ Len(sizing.lines) = 2

\* ------------------------------------------------------------ properties
\* of two calls of parse_and_save_game at once (SpecWrite)

BothSucceeded ==
  /\ Len(writers) = 2
  /\ \A i \in 1 .. 2 : writers[i].pc = "done" /\ ~ writers[i].out.raised /\ writers[i].out.value

\* The writer whose write finished last.
LastWriter == CHOOSE i \in 1 .. 2 : \A j \in 1 .. 2 : writers[j].seq <= writers[i].seq

\* C17, as claimed: when two detail tasks for different URLs that run at the
\* same time give the same file name and both have finished, the file holds
\* the complete content of the record whose write finished last and nothing
\* of the other; both report success, so that the successes counted are more
\* than the files written.
C17_LastWriterWins ==
  (/\ BothSucceeded
   /\ writers[1].url # writers[2].url
   /\ writers[1].out.name = writers[2].out.name) =>
    /\ files[writers[1].out.name] = Lines(writers[LastWriter].out.record)
    /\ CountSuccess(CountSuccess(0, writers[1].out), writers[2].out)
         > Cardinality(DOMAIN files)

SameExtraction ==
  /\ Len(writers) = 2
  /\ writers[1].url = writers[2].url
  /\ writers[1].doc = writers[2].doc

=============================================================================
